---- MODULE Spec2Model ----
(***************************************************************************)
(* Model of cloudbridge's AWS provider services                            *)
(* (cloudbridge/cloud/providers/aws/services.py):                          *)
(*   - AWSInstanceService._resolve_launch_options (topology resolution),   *)
(*   - AWSInstanceService._process_block_device_mappings,                  *)
(*   - AWSInstanceService.create (the launch),                             *)
(*   - EC2ServiceFilter (generic get/create/delete/wait adapter) and the   *)
(*     security-group, volume and snapshot services built on it,           *)
(* and of the Azure provider's client property                             *)
(* (cloudbridge/cloud/providers/azure/provider.py).                        *)
(* Python's None is the string "None"; an empty or absent list is << >>.   *)
(***************************************************************************)
EXTENDS Naturals, Sequences, FiniteSets, TLC

VARIABLES
    pc,               \* position of the operation under way
    zone,             \* create(): the zone argument as the caller gave it
    zone_id,          \* create(): zone_id local / argument of the callee
    subnet_id,        \* create(): subnet_id local / argument of the callee
    security_groups,  \* create(): security_groups argument
    launch_config,    \* create(): launch_config argument (present = FALSE is None)
    default_vpc,      \* provider: the network flagged is_default, or "None"
    resolved,         \* what _resolve_launch_options returned or raised
    bdm,              \* what _process_block_device_mappings returned or raised
    calls,            \* provider: the mutating calls issued so far, in order
    events,           \* history: stage begin/end marks of one launch
    raised,           \* exception that ended the operation, or "None"
    instance,         \* create(): the returned instance handle, or "None"
    store,            \* provider: where the adapter's resource r1 stands
    has_refresh,      \* the resource kind's handle has a callable refresh
    op,               \* adapter: the operation under way
    timeout,          \* wait_for_*: the timeout local
    polls,            \* history: what get returned at each poll of this wait
    refreshes,        \* history: refresh() invocations of this operation
    lookup,           \* delete(): what its get returned
    wret,             \* what wait_for_create / wait_for_delete returned
    ret,              \* what the operation returned
    ops_done,         \* number of adapter operations started
    budget,           \* wait_for_*: the timeout argument as the caller gave it
    deleted,          \* delete(): how the provider's delete call ended
    failed,           \* get/list/find: the provider raised EC2ResponseError
    page,             \* list/find: the objects handed to the paged result
    azure_client,     \* AzureCloudProvider._azure_client, or "None"
    resource_group,   \* Azure: the configured resource group exists
    attempts,         \* tenacity: attempts of the running _initialize call
    tries,            \* history: what each attempt's provider calls answered
    initialized,      \* history: a run of _initialize ended without error
    accesses          \* history: what each azure_client access gave its caller

launchVars == <<zone, zone_id, subnet_id, security_groups, launch_config, default_vpc,
                resolved, bdm, events, raised, instance>>

adapterVars == <<store, has_refresh, op, timeout, polls, refreshes, lookup, wret, ret,
                 ops_done, budget, deleted, failed, page>>

\* What an operation in progress leaves alone besides its own locals.
readVars == <<deleted, failed, page>>

azureVars == <<azure_client, resource_group, attempts, tries, initialized, accesses>>

vars == <<pc, calls, launchVars, adapterVars, azureVars>>

None == "None"

(***************************************************************************)
(* Bounds of the explored inputs.                                          *)
(***************************************************************************)
MaxGroups == 2        \* longest security-group list handed to the resolver
MaxSpecs == 3         \* longest block-device list handed to the builder
MaxLaunchSpecs == 2   \* longest block-device list of a whole launch
MaxTimeout == 3       \* largest explicit timeout argument besides the default
MaxAccesses == 3       \* accesses to the Azure provider's azure_client property
MaxOps == 3           \* adapter operations run one after another

Range(s) == {s[i] : i \in 1..Len(s)}

SeqsUpTo(S, n) == UNION {[1..k -> S] : k \in 0..n}

(***************************************************************************)
(* The provider account the resolver reads: zones, networks (VPCs) with    *)
(* their subnets in provider-returned order, and security groups.  sg3 is  *)
(* an EC2-Classic group (no VPC) that shares its name with sg1; vpc2 has   *)
(* no subnet in z2; vpc3 has no subnet at all.                             *)
(***************************************************************************)
Zones == {"z1", "z2"}

Networks == <<"vpc1", "vpc2", "vpc3">>

Subnets == {"sn1", "sn2", "sn3", "sn4"}

availability_zone(sn) ==
    CASE sn = "sn1" -> "z1"
      [] sn = "sn2" -> "z2"
      [] sn = "sn3" -> "z1"
      [] sn = "sn4" -> "z1"

subnet_vpc_id(sn) == IF sn = "sn4" THEN "vpc2" ELSE "vpc1"

vpc_subnets(vpc) ==
    CASE vpc = "vpc1" -> <<"sn1", "sn2", "sn3">>
      [] vpc = "vpc2" -> <<"sn4">>
      [] OTHER -> << >>

AllSecurityGroups == <<"sg1", "sg2", "sg3", "sg4">>

sg_vpc_id(sg) ==
    CASE sg = "sg1" -> "vpc1"
      [] sg = "sg2" -> "vpc2"
      [] sg = "sg3" -> None
      [] sg = "sg4" -> "vpc1"

sg_name(sg) ==
    CASE sg = "sg1" -> "web"
      [] sg = "sg2" -> "db"
      [] sg = "sg3" -> "web"
      [] sg = "sg4" -> "app"

SgNames == {sg_name(AllSecurityGroups[i]) : i \in 1..Len(AllSecurityGroups)}

(***************************************************************************)
(* A security-group argument: a list of SecurityGroup objects (by_name =   *)
(* FALSE, items are their ids) or a list of names; None is the empty list. *)
(***************************************************************************)
NoGroups == [by_name |-> FALSE, items |-> << >>]

SgInputs(n) ==
    {[by_name |-> FALSE, items |-> s] : s \in SeqsUpTo(Range(AllSecurityGroups), n)}
    \cup {[by_name |-> TRUE, items |-> s] : s \in SeqsUpTo(SgNames, n) \ {<< >>}}

(***************************************************************************)
(* Outcomes: a returned value (exc = None) or a raised exception.          *)
(***************************************************************************)
Raise(exc, msg) ==
    [exc |-> exc, msg |-> msg, subnet_id |-> None, zone_id |-> None, sg_ids |-> << >>]

Return3(sn, z, sgs) ==
    [exc |-> None, msg |-> "", subnet_id |-> sn, zone_id |-> z, sg_ids |-> sgs]

\* _deduce_subnet_and_zone: with a zone, the loop has no break, so the
\* subnet left in subnet_id is the one of the last match; with no match the
\* local subnet_id is never bound and the return statement raises.
LastMatch(sns, z) ==
    LET hits == {i \in 1..Len(sns) : availability_zone(sns[i]) = z}
    IN IF hits = {} THEN None
       ELSE sns[CHOOSE i \in hits : \A j \in hits : j <= i]

\* Mutant of deduce_subnet_and_zone: subnet_id starts as None, so a zone
\* without a subnet in the network yields an unset subnet instead of raising.
deduce_subnet_and_zone_unset(vpc, z) ==
    LET sns == vpc_subnets(vpc) IN
    IF z # None
    THEN Return3(LastMatch(sns, z), z, << >>)
    ELSE IF sns = << >>
         THEN Raise("IndexError", "subnets")
         ELSE Return3(sns[1], availability_zone(sns[1]), << >>)

deduce_subnet_and_zone(vpc, z) ==
    LET sns == vpc_subnets(vpc) IN
    IF z # None
    THEN IF LastMatch(sns, z) = None
         THEN Raise("UnboundLocalError", "subnet_id")
         ELSE Return3(LastMatch(sns, z), z, << >>)
    ELSE IF sns = << >>
         THEN Raise("IndexError", "subnets")
         ELSE Return3(sns[1], availability_zone(sns[1]), << >>)

\* ec2_conn.get_all_security_groups(filters): provider order, optionally
\* restricted to one VPC.
get_all_security_groups(vpc_id) ==
    SelectSeq(AllSecurityGroups, LAMBDA sg : vpc_id = None \/ sg_vpc_id(sg) = vpc_id)

process_security_groups(sgs, vpc_id) ==
    IF ~sgs.by_name
    THEN sgs.items
    ELSE SelectSeq(get_all_security_groups(vpc_id),
                   LAMBDA sg : sg_name(sg) \in Range(sgs.items))

\* The loop of lines 563-575 over _sg_ids, from position i, with the locals
\* st = [exc, msg, subnet_id, zone_id, sg_ids].
RECURSIVE SgLoop(_, _, _)
SgLoop(ids, i, st) ==
    IF i > Len(ids) \/ st.exc # None THEN st
    ELSE LET sg_id == ids[i] IN
         IF sg_vpc_id(sg_id) = None THEN SgLoop(ids, i + 1, st)
         ELSE IF st.sg_ids # << >> /\ sg_id \notin Range(st.sg_ids)
              THEN Raise("ValueError", "multiple_matches")
              ELSE LET d == deduce_subnet_and_zone(sg_vpc_id(sg_id), st.zone_id) IN
                   IF d.exc # None THEN d
                   ELSE SgLoop(ids, i + 1,
                               Return3(d.subnet_id, d.zone_id, Append(st.sg_ids, sg_id)))

\* Mutant of NoSubnetFound: the check after the group loop is lost.
NoSubnetFound_unchecked(st) == FALSE

\* Line 578: "if not subnet_id" after the groups were looked at.
NoSubnetFound(st) == st.subnet_id = None

\* Lines 554-581: the security-group stage.
SgStage(sn, z, sgs, vpc_id) ==
    LET ids == process_security_groups(sgs, vpc_id)
        st == IF sn = None
              THEN SgLoop(ids, 1, Return3(sn, z, << >>))
              ELSE Return3(sn, z, ids)
    IN IF st.exc # None THEN st
       ELSE IF NoSubnetFound(st)
            THEN Raise("AttributeError", "sg_without_vpc")
            ELSE st

\* Mutant of DefaultStage: the "No default VPC exists" check is lost.
DefaultStage_unchecked(z, dflt) ==
    IF dflt = None
    THEN Return3(None, z, << >>)
    ELSE deduce_subnet_and_zone(dflt, z)

\* Lines 582-591: the default-VPC stage.
DefaultStage(z, dflt) ==
    IF dflt = None
    THEN Raise("AttributeError", "no_default_vpc")
    ELSE deduce_subnet_and_zone(dflt, z)

\* Mutant of ZoneMismatch: the comparison with the subnet's zone is lost.
ZoneMismatch_unchecked(sn, z) == FALSE

\* Line 550: "if zone_id and subnet.availability_zone != zone_id".
ZoneMismatch(sn, z) == z # None /\ availability_zone(sn) # z

resolve_launch_options(sn, z, sgs, dflt) ==
    LET vpc_id == IF sn # None THEN subnet_vpc_id(sn) ELSE None IN
    IF sn # None /\ ZoneMismatch(sn, z)
    THEN Raise("ValueError", "zone_mismatch")
    ELSE IF sgs.items # << >>
         THEN SgStage(sn, z, sgs, vpc_id)
         ELSE IF sn = None
              THEN DefaultStage(z, dflt)
              ELSE Return3(sn, z, << >>)

(***************************************************************************)
(* Block devices of a launch config.  A device is a volume (root or not,   *)
(* with a Snapshot, Volume or MachineImage source, or none) or ephemeral.  *)
(* size = 0 is Python's None.                                              *)
(***************************************************************************)
Sources == {"Snapshot", "Volume", "MachineImage", "None"}

source_id(src) ==
    CASE src = "Snapshot" -> "snap-src"
      [] src = "Volume" -> "vol-src"
      [] src = "MachineImage" -> "ami-src"
      [] OTHER -> None

VolumeDevice(root, src) ==
    [is_volume |-> TRUE, is_root |-> root, source |-> src,
     size |-> IF src \in {"None", "MachineImage"} THEN 8 ELSE 0,
     delete_on_terminate |-> root]

EphemeralDevice ==
    [is_volume |-> FALSE, is_root |-> FALSE, source |-> "None", size |-> 0,
     delete_on_terminate |-> FALSE]

Devices == {EphemeralDevice} \cup {VolumeDevice(r, s) : r \in BOOLEAN, s \in Sources}

IsBlank(d) == d.is_volume /\ d.source = "None"

NoLaunchConfig == [present |-> FALSE, block_devices |-> << >>, network_interfaces |-> << >>]

\* Mutant of Letters: the slice starts at 'f', as the comment above it says.
Letters_from_f == <<"f", "g", "h", "i", "j", "k", "l", "m", "n", "o", "p", "q", "r",
                    "s", "t", "u", "v", "w", "x", "y", "z">>

\* string.ascii_lowercase[6:]
Letters == <<"g", "h", "i", "j", "k", "l", "m", "n", "o", "p", "q", "r", "s", "t",
             "u", "v", "w", "x", "y", "z">>

\* A fresh BlockDeviceType().
BlockDeviceType ==
    [snapshot_id |-> None, volume_id |-> None, ephemeral_name |-> None,
     delete_on_terminate |-> FALSE, size |-> 0]

EmptyMap == [s \in {} |-> BlockDeviceType]

MapPut(m, slot, bd) ==
    [s \in DOMAIN m \cup {slot} |-> IF s = slot THEN bd ELSE m[s]]

(***************************************************************************)
(* AWSVolumeService.create as the builder sees it.  The provider decides   *)
(* how the k-th call ends: "ok" (wait_for_create confirmed), "timeout"     *)
(* (it returned False), "unsupported" (it returned None) or "error"        *)
(* (create_volume raised).  Truth values are Python's: None and False are  *)
(* falsy.                                                                  *)
(***************************************************************************)
VolumeOutcomes == {"ok", "timeout", "unsupported", "error"}

WaitResult(outcome) ==
    CASE outcome = "ok" -> "True"
      [] outcome = "timeout" -> "False"
      [] OTHER -> "None"

Falsy(v) == v \in {"False", "None"}

\* Lines 262-264, 327-332, 367-372: "if not wait_for_create(...): return None".
create_return(wait, res) == IF Falsy(wait) THEN None ELSE res

NewVolumeId(k) == "vol-new" \o ToString(k)

\* The outcome of the k-th volume creation under the provider behaviour
\* fail = [at, how]: creations before `at` succeed, creation `at` ends `how`.
OutcomeAt(fail, k) == IF k = fail.at THEN fail.how ELSE "ok"

Failures(n) == {[at |-> 0, how |-> "ok"]}
               \cup {[at |-> k, how |-> h] : k \in 1..n, h \in VolumeOutcomes \ {"ok"}}

(***************************************************************************)
(* _process_block_device_mappings: the loop over launch_config's devices   *)
(* from position i with the locals st.                                     *)
(***************************************************************************)
BdmRaise(st, exc, msg) == [st EXCEPT !.exc = exc, !.msg = msg]

BdmStart ==
    [exc |-> None, msg |-> "", map |-> EmptyMap, next_letter |-> 1,
     ephemeral_counter |-> 0, ephemeral_names |-> << >>, slots |-> << >>,
     created |-> << >>, calls |-> << >>]

NoBdm == [BdmStart EXCEPT !.exc = "pending"]

\* Mutant of ZoneMissing: the blank volume is created whatever the zone.
ZoneMissing_unchecked(z) == FALSE

\* Line 660: "if not zone".
ZoneMissing(z) == z = None

\* Mutant of image_source: the image's id is written like a snapshot's.
image_source_as_snapshot(bd, id) == [bd EXCEPT !.snapshot_id = id]

\* Lines 652-654: "elif isinstance(device.source, MachineImage): pass".
image_source(bd, id) == bd

\* Lines 648-671 for one volume device already placed at `slot`.
VolumeSource(d, slot, z, st, fail) ==
    LET finish(s, bd) ==
            [s EXCEPT !.map = MapPut(s.map, slot,
                 [bd EXCEPT !.delete_on_terminate = d.delete_on_terminate,
                            !.size = IF d.size # 0 THEN d.size ELSE bd.size])]
    IN CASE d.source = "Snapshot" ->
              finish(st, [BlockDeviceType EXCEPT !.snapshot_id = source_id(d.source)])
         [] d.source = "Volume" ->
              finish(st, [BlockDeviceType EXCEPT !.volume_id = source_id(d.source)])
         [] d.source = "MachineImage" ->
              finish(st, image_source(BlockDeviceType, source_id(d.source)))
         [] OTHER ->
              IF ZoneMissing(z)
              THEN BdmRaise(st, "InvalidConfigurationException", "zone_required")
              ELSE LET k == Len(st.created) + 1
                       how == OutcomeAt(fail, Len(st.calls) + 1)
                       issued == [st EXCEPT !.calls = Append(st.calls, "create_volume")]
                       new_vol == create_return(WaitResult(how), NewVolumeId(k))
                   IN IF how = "error"
                      THEN BdmRaise(issued, "EC2ResponseError", "create_volume")
                      ELSE LET made == [issued EXCEPT !.created =
                                            Append(st.created, NewVolumeId(k))]
                           IN IF new_vol = None
                              THEN BdmRaise(made, "AttributeError", "new_vol.id")
                              ELSE finish(made, [BlockDeviceType EXCEPT
                                                     !.volume_id = new_vol])

\* Mutant of next_cursor: the letter iterator is not advanced.
next_cursor_stuck(n) == n

\* Line 646: next(next_letter) moves the iterator to the following letter.
next_cursor(n) == n + 1

RECURSIVE BdmLoop(_, _, _, _, _)
BdmLoop(devs, i, z, st, fail) ==
    IF i > Len(devs) \/ st.exc # None THEN st
    ELSE LET d == devs[i] IN
         IF d.is_volume
         THEN IF d.is_root
              THEN LET placed == [st EXCEPT
                           !.map = MapPut(st.map, "/dev/sda1", BlockDeviceType),
                           !.slots = Append(st.slots, "/dev/sda1")]
                   IN BdmLoop(devs, i + 1, z,
                              VolumeSource(d, "/dev/sda1", z, placed, fail), fail)
              ELSE IF st.next_letter > Len(Letters)
                   THEN BdmRaise(st, "StopIteration", "next_letter")
                   ELSE LET slot == "sd" \o Letters[st.next_letter]
                            placed == [st EXCEPT
                                !.map = MapPut(st.map, slot, BlockDeviceType),
                                !.slots = Append(st.slots, slot),
                                !.next_letter = next_cursor(st.next_letter)]
                        IN BdmLoop(devs, i + 1, z,
                                   VolumeSource(d, slot, z, placed, fail), fail)
         ELSE \* ephemeral: the name is set on a descriptor that is never put
              \* into the mapping, and the counter is never advanced
              BdmLoop(devs, i + 1, z,
                      [st EXCEPT !.ephemeral_names = Append(st.ephemeral_names,
                           "ephemeral" \o ToString(st.ephemeral_counter)),
                                 !.slots = Append(st.slots, None)],
                      fail)

process_block_device_mappings(lc, z, fail) ==
    BdmLoop(lc.block_devices, 1, z, BdmStart, fail)

NumBlank(devs) == Cardinality({i \in 1..Len(devs) : IsBlank(devs[i])})

(***************************************************************************)
(* EC2ServiceFilter over one resource r1 of one kind.  The provider is     *)
(* eventually consistent: a created resource is "creating" (accepted, not  *)
(* yet returned by reads) before it is "present", a deleted one is         *)
(* "deleting" (still returned by reads) before it is "absent".             *)
(***************************************************************************)
Resource == "r1"

\* def wait_for_create(self, val, filter_name, timeout=15)
DefaultTimeout == 15

Visible(st) == st \in {"present", "deleting"}

\* EC2ServiceFilter.get: a provider error is swallowed into None.
get(st, error) == IF error THEN None ELSE IF Visible(st) THEN Resource ELSE None

\* Mutant of loop_continues: the loop test lets one more turn through.
loop_continues_inclusive(t) == t >= 0

\* Lines 159 and 173: "while timeout > 0".
loop_continues(t) == t > 0

\* Lines 160 and 174: "time.sleep(2)" before each poll, in seconds.
PollSleep == 2

\* Mutant of read_raised: the except clause is missing, the error escapes.
read_raised_propagates(error) == IF error THEN "EC2ResponseError" ELSE None

\* Lines 91-92, 99-100, 119-120: "except EC2ResponseError" swallows the
\* provider's error, so nothing is raised to the caller of get, list, find.
read_raised(error) == None

\* EC2ServiceFilter.list: the wrapped objects handed to the paged result.
list(st, error) == IF error THEN << >> ELSE IF Visible(st) THEN <<Resource>> ELSE << >>

\* EC2ServiceFilter.find with a filter value that names the resource.
find(st, error) == IF error THEN << >> ELSE IF Visible(st) THEN <<Resource>> ELSE << >>

\* Mutant of delete_return: the provider's error is swallowed.
delete_return_swallowed(res, outcome) == "True"

\* Mutant of wait_for_delete_gone: the test of the poll is inverted.
wait_for_delete_gone_inverted(obj) == obj # None

\* Line 175: "if not self.get(val, filter_name)".
wait_for_delete_gone(obj) == obj = None

\* Mutant of delete_return: an absent resource is reported as a failure.
delete_return_found(res, outcome) ==
    IF res = None \/ outcome = "error" THEN "False" ELSE "True"

\* Lines 145-150: what delete returns, given its lookup and how the
\* provider's delete call ended ("ok", "error"; "skipped" when not called).
delete_return(res, outcome) ==
    IF res # None /\ outcome = "error" THEN "False" ELSE "True"

\* Mutant of wait_for_create_found: the tri-state collapsed to a boolean.
wait_for_create_found_bool(refresh) == IF refresh THEN "True" ELSE "False"

\* Lines 162-167: a poll found the resource.
wait_for_create_found(refresh) == IF refresh THEN "True" ELSE "None"

\* AzureCloudProvider.__init__, line 61: no client yet.
AzureIdle ==
    /\ azure_client = None
    /\ resource_group = FALSE
    /\ attempts = 0
    /\ tries = << >>
    /\ initialized = FALSE
    /\ accesses = << >>

AdapterIdle ==
    /\ store = "absent"
    /\ has_refresh = FALSE
    /\ op = "none"
    /\ timeout = 0
    /\ polls = << >>
    /\ refreshes = 0
    /\ lookup = None
    /\ wret = None
    /\ ret = None
    /\ ops_done = 0
    /\ budget = 0
    /\ deleted = "skipped"
    /\ failed = FALSE
    /\ page = << >>

(***************************************************************************)
(* Specification of the resolver alone: Init draws its arguments and the   *)
(* account's default network, the one action applies it.                   *)
(***************************************************************************)
NoResult == [exc |-> "pending", msg |-> "", subnet_id |-> None, zone_id |-> None,
             sg_ids |-> << >>]

InitResolve ==
    /\ pc = "resolve_call"
    /\ zone \in Zones \cup {None}
    /\ zone_id = zone
    /\ subnet_id \in Subnets \cup {None}
    /\ security_groups \in SgInputs(MaxGroups)
    /\ default_vpc \in Range(Networks) \cup {None}
    /\ launch_config = NoLaunchConfig
    /\ resolved = NoResult
    /\ bdm = NoBdm
    /\ calls = << >>
    /\ events = << >>
    /\ raised = None
    /\ instance = None
    /\ AdapterIdle
    /\ AzureIdle

ResolveCall ==
    /\ pc = "resolve_call"
    /\ resolved' = resolve_launch_options(subnet_id, zone_id, security_groups, default_vpc)
    /\ pc' = "resolved"
    /\ UNCHANGED adapterVars
    /\ UNCHANGED <<zone, zone_id, subnet_id, security_groups, launch_config, default_vpc,
                   bdm, calls, events, raised, instance>>
    /\ UNCHANGED azureVars

NextResolve == ResolveCall

SpecResolve == InitResolve /\ [][NextResolve]_vars

(***************************************************************************)
(* Specification of the block-device-mapping builder alone: Init draws the *)
(* device list and the zone, the one action applies the builder under some *)
(* provider behaviour for the volume creations.                            *)
(***************************************************************************)
InitBdm ==
    /\ pc = "bdm"
    /\ zone \in Zones \cup {None}
    /\ zone_id = zone
    /\ subnet_id = None
    /\ security_groups = NoGroups
    /\ default_vpc = None
    /\ launch_config \in {[present |-> TRUE, block_devices |-> ds,
                           network_interfaces |-> << >>] :
                              ds \in SeqsUpTo(Devices, MaxSpecs)}
    /\ resolved = NoResult
    /\ bdm = NoBdm
    /\ calls = << >>
    /\ events = << >>
    /\ raised = None
    /\ instance = None
    /\ AdapterIdle
    /\ AzureIdle

BdmCall ==
    /\ pc = "bdm"
    /\ \E fail \in Failures(NumBlank(launch_config.block_devices)) :
          /\ bdm' = process_block_device_mappings(launch_config, zone_id, fail)
          /\ calls' = calls \o bdm'.calls
    /\ pc' = "bdm_done"
    /\ UNCHANGED adapterVars
    /\ UNCHANGED <<zone, zone_id, subnet_id, security_groups, launch_config, default_vpc,
                   resolved, events, raised, instance>>
    /\ UNCHANGED azureVars

NextBdm == BdmCall

SpecBdm == InitBdm /\ [][NextBdm]_vars

(***************************************************************************)
(* AWSInstanceService.create: one launch.  Init draws the caller's         *)
(* arguments; the actions are the statements of create() in program order. *)
(***************************************************************************)
LaunchDevices ==
    {EphemeralDevice, VolumeDevice(TRUE, "Snapshot"), VolumeDevice(FALSE, "Volume"),
     VolumeDevice(TRUE, "None"), VolumeDevice(FALSE, "None")}

LaunchGroups ==
    {NoGroups,
     [by_name |-> FALSE, items |-> <<"sg1">>],
     [by_name |-> FALSE, items |-> <<"sg1", "sg2">>],
     [by_name |-> FALSE, items |-> <<"sg3">>],
     [by_name |-> TRUE, items |-> <<"web">>]}

LaunchInterfaces == {<< >>, <<"sn1">>, <<"sn2">>}

InstanceName == "web-1"

\* _get_net_id
get_net_id(lc) ==
    IF Len(lc.network_interfaces) > 0 THEN lc.network_interfaces[1] ELSE None

Init ==
    /\ pc = "create"
    /\ zone \in Zones \cup {None}
    /\ zone_id = zone
    /\ subnet_id = None
    /\ security_groups \in LaunchGroups
    /\ default_vpc \in {None, "vpc1", "vpc3"}
    /\ launch_config \in {NoLaunchConfig} \cup
          {[present |-> TRUE, block_devices |-> ds, network_interfaces |-> ni] :
               ds \in SeqsUpTo(LaunchDevices, MaxLaunchSpecs), ni \in LaunchInterfaces}
    /\ resolved = NoResult
    /\ bdm = NoBdm
    /\ calls = << >>
    /\ events = << >>
    /\ raised = None
    /\ instance = None
    /\ AdapterIdle
    /\ AzureIdle

\* Lines 498-500: a launch config was given.
CreateWithConfig ==
    /\ pc = "create"
    /\ launch_config.present
    /\ \E fail \in Failures(NumBlank(launch_config.block_devices)) :
          /\ bdm' = process_block_device_mappings(launch_config, zone_id, fail)
          /\ calls' = calls \o bdm'.calls
    /\ events' = events \o <<"bdm_begin", "bdm_end">>
    /\ IF bdm'.exc # None
       THEN /\ raised' = bdm'.exc
            /\ pc' = "raised"
            /\ UNCHANGED subnet_id
       ELSE /\ subnet_id' = get_net_id(launch_config)
            /\ pc' = "resolve"
            /\ UNCHANGED raised
    /\ UNCHANGED adapterVars
    /\ UNCHANGED <<zone, zone_id, security_groups, launch_config, default_vpc,
                   resolved, instance>>
    /\ UNCHANGED azureVars

\* Lines 501-502: no launch config.
CreateNoConfig ==
    /\ pc = "create"
    /\ ~launch_config.present
    /\ bdm' = [BdmStart EXCEPT !.msg = "no_mapping"]
    /\ subnet_id' = None
    /\ pc' = "resolve"
    /\ UNCHANGED adapterVars
    /\ UNCHANGED <<zone, zone_id, security_groups, launch_config, default_vpc,
                   resolved, calls, events, raised, instance>>
    /\ UNCHANGED azureVars

\* Lines 503-504.
CreateResolve ==
    /\ pc = "resolve"
    /\ resolved' = resolve_launch_options(subnet_id, zone_id, security_groups, default_vpc)
    /\ events' = events \o <<"resolve_begin", "resolve_end">>
    /\ IF resolved'.exc # None
       THEN /\ raised' = resolved'.exc
            /\ pc' = "raised"
            /\ UNCHANGED <<subnet_id, zone_id>>
       ELSE /\ subnet_id' = resolved'.subnet_id
            /\ zone_id' = resolved'.zone_id
            /\ pc' = "run"
            /\ UNCHANGED raised
    /\ UNCHANGED adapterVars
    /\ UNCHANGED <<zone, security_groups, launch_config, default_vpc, bdm, calls,
                   instance>>
    /\ UNCHANGED azureVars

\* What the provider's run_instances can do: hand a reservation, hand
\* nothing, or raise.
RunOutcomes == {"reservation", "empty", "error"}

\* Mutant of run_instances_raised: the provider's error is caught.
run_instances_caught(outcome) == None

\* Lines 506-510: the call stands outside any try block, so what the
\* provider raises leaves create as it is.
run_instances_raised(outcome) ==
    IF outcome = "error" THEN "EC2ResponseError" ELSE None

\* Lines 511-516: "instance = None; if reservation: ... instance.name = name".
named_instance(outcome, name) ==
    IF outcome = "reservation" THEN name ELSE None

\* Lines 506-516: the single run_instances call and the wrapping of its result.
CreateRunInstances ==
    /\ pc = "run"
    /\ calls' = Append(calls, "run_instances")
    /\ \E outcome \in RunOutcomes :
          /\ events' = events \o <<"run_instances", outcome>>
          /\ raised' = run_instances_raised(outcome)
          /\ IF raised' # None
             THEN /\ pc' = "raised"
                  /\ UNCHANGED instance
             ELSE /\ pc' = "done"
                  /\ instance' = named_instance(outcome, InstanceName)
    /\ UNCHANGED adapterVars
    /\ UNCHANGED <<zone, zone_id, subnet_id, security_groups, launch_config,
                   default_vpc, resolved, bdm>>
    /\ UNCHANGED azureVars

Next == CreateWithConfig \/ CreateNoConfig \/ CreateResolve \/ CreateRunInstances

Spec == Init /\ [][Next]_vars

(***************************************************************************)
(* Specification of the adapter: operations on r1 run one after another    *)
(* against a provider whose state propagates on its own.                   *)
(***************************************************************************)
Timeouts == 0..MaxTimeout \cup {DefaultTimeout}

InitAdapter ==
    /\ pc = "idle"
    /\ calls = << >>
    /\ zone = None
    /\ zone_id = None
    /\ subnet_id = None
    /\ security_groups = NoGroups
    /\ default_vpc = None
    /\ launch_config = NoLaunchConfig
    /\ resolved = NoResult
    /\ bdm = NoBdm
    /\ events = << >>
    /\ raised = None
    /\ instance = None
    /\ store \in {"absent", "present"}
    /\ has_refresh \in BOOLEAN
    /\ op = "none"
    /\ timeout = 0
    /\ polls = << >>
    /\ refreshes = 0
    /\ lookup = None
    /\ wret = None
    /\ ret = None
    /\ ops_done = 0
    /\ budget = 0
    /\ deleted = "skipped"
    /\ failed = FALSE
    /\ page = << >>
    /\ AzureIdle

\* The provider makes an accepted creation or deletion visible to reads.
Propagate ==
    /\ store \in {"creating", "deleting"}
    /\ store' = IF store = "creating" THEN "present" ELSE "absent"
    /\ UNCHANGED <<pc, calls, launchVars, has_refresh, op, timeout, polls, refreshes,
                   lookup, wret, ret, ops_done, budget, readVars>>
    /\ UNCHANGED azureVars

Begin(o, t, at) ==
    /\ pc \in {"idle", "returned"}
    /\ ops_done < MaxOps
    /\ ops_done' = ops_done + 1
    /\ op' = o
    /\ timeout' = t
    /\ budget' = t
    /\ pc' = at
    /\ polls' = << >>
    /\ refreshes' = 0
    /\ wret' = None

\* EC2ServiceFilter.delete, lines 144-150.
Delete ==
    /\ \E error \in BOOLEAN, outcome \in {"ok", "error"} :
          LET res == get(store, error) IN
          /\ Begin("delete", 0, "returned")
          /\ lookup' = res
          /\ ret' = delete_return(res, IF res # None THEN outcome ELSE "skipped")
          /\ calls' = IF res # None THEN Append(calls, "delete") ELSE calls
          /\ store' = IF res # None /\ outcome = "ok" THEN "deleting" ELSE store
          /\ deleted' = IF res # None THEN outcome ELSE "skipped"
          /\ failed' = error
    /\ raised' = None
    /\ page' = << >>
    /\ UNCHANGED <<has_refresh, zone, zone_id, subnet_id, security_groups,
                   launch_config, default_vpc, resolved, bdm, events, instance>>
    /\ UNCHANGED azureVars

\* A caller invokes wait_for_create(val, filter_name, timeout).
WaitForCreateCall ==
    /\ \E t \in Timeouts : Begin("wait_for_create", t, "wfc_loop")
    /\ lookup' = None
    /\ ret' = None
    /\ raised' = None
    /\ UNCHANGED readVars
    /\ UNCHANGED <<calls, store, has_refresh, zone, zone_id, subnet_id,
                   security_groups, launch_config, default_vpc, resolved, bdm, events,
                   instance>>
    /\ UNCHANGED azureVars

\* Lines 159-168: one turn of the loop (sleep, get, test).
WaitForCreatePoll ==
    /\ pc = "wfc_loop"
    /\ loop_continues(timeout)
    /\ \E error \in BOOLEAN :
          LET obj == get(store, error) IN
          /\ polls' = Append(polls, obj)
          /\ IF obj # None
             THEN /\ wret' = wait_for_create_found(has_refresh)
                  /\ refreshes' = IF has_refresh THEN refreshes + 1 ELSE refreshes
                  /\ pc' = IF op = "wait_for_create" THEN "returned" ELSE "svc_waited"
                  /\ UNCHANGED timeout
             ELSE /\ timeout' = timeout - 1
                  /\ UNCHANGED <<wret, refreshes, pc>>
    /\ ret' = IF pc' = "returned" THEN wret' ELSE ret
    /\ UNCHANGED <<calls, launchVars, store, has_refresh, op, lookup, ops_done, budget,
                   readVars>>
    /\ UNCHANGED azureVars

\* Line 169: the budget is used up.
WaitForCreateTimeout ==
    /\ pc = "wfc_loop"
    /\ ~loop_continues(timeout)
    /\ wret' = "False"
    /\ pc' = IF op = "wait_for_create" THEN "returned" ELSE "svc_waited"
    /\ ret' = IF op = "wait_for_create" THEN "False" ELSE ret
    /\ UNCHANGED <<calls, launchVars, store, has_refresh, op, timeout, polls,
                   refreshes, lookup, ops_done, budget, readVars>>
    /\ UNCHANGED azureVars

\* AWSSecurityGroupService.create, AWSVolumeService.create and
\* AWSSnapshotService.create up to the wait: iface.create issues the
\* provider call, which raises or returns the new resource.
ServiceKinds == {"security_group", "volume", "snapshot"}

ServiceCreateCall ==
    /\ store = "absent"
    /\ \E kind \in ServiceKinds, outcome \in {"ok", "error"} :
          /\ Begin(kind, DefaultTimeout, IF outcome = "ok" THEN "wfc_loop" ELSE "returned")
          /\ calls' = Append(calls, "create_" \o kind)
          /\ store' = IF outcome = "ok" THEN "creating" ELSE store
          /\ raised' = IF outcome = "ok" THEN None ELSE "EC2ResponseError"
    /\ lookup' = None
    /\ ret' = None
    /\ UNCHANGED readVars
    /\ UNCHANGED <<has_refresh, zone, zone_id, subnet_id, security_groups, launch_config,
                   default_vpc, resolved, bdm, events, instance>>
    /\ UNCHANGED azureVars

\* "if not self.iface.wait_for_create(...): return None" ... "return res".
ServiceCreateReturn ==
    /\ pc = "svc_waited"
    /\ ret' = create_return(wret, Resource)
    /\ pc' = "returned"
    /\ UNCHANGED <<calls, launchVars, store, has_refresh, op, timeout, polls,
                   refreshes, lookup, wret, ops_done, budget, readVars>>
    /\ UNCHANGED azureVars

\* EC2ServiceFilter.get called by a client.
Get ==
    /\ \E error \in BOOLEAN :
          /\ Begin("get", 0, "returned")
          /\ failed' = error
          /\ raised' = read_raised(error)
          /\ ret' = get(store, error)
          /\ page' = << >>
    /\ lookup' = None
    /\ UNCHANGED <<calls, store, has_refresh, deleted, zone, zone_id, subnet_id,
                   security_groups, launch_config, default_vpc, resolved, bdm, events,
                   instance>>
    /\ UNCHANGED azureVars

\* EC2ServiceFilter.list.
List ==
    /\ \E error \in BOOLEAN :
          /\ Begin("list", 0, "returned")
          /\ failed' = error
          /\ raised' = read_raised(error)
          /\ page' = list(store, error)
    /\ ret' = None
    /\ lookup' = None
    /\ UNCHANGED <<calls, store, has_refresh, deleted, zone, zone_id, subnet_id,
                   security_groups, launch_config, default_vpc, resolved, bdm, events,
                   instance>>
    /\ UNCHANGED azureVars

\* EC2ServiceFilter.find.
Find ==
    /\ \E error \in BOOLEAN :
          /\ Begin("find", 0, "returned")
          /\ failed' = error
          /\ raised' = read_raised(error)
          /\ page' = find(store, error)
    /\ ret' = None
    /\ lookup' = None
    /\ UNCHANGED <<calls, store, has_refresh, deleted, zone, zone_id, subnet_id,
                   security_groups, launch_config, default_vpc, resolved, bdm, events,
                   instance>>
    /\ UNCHANGED azureVars

\* A caller invokes wait_for_delete(val, filter_name, timeout).
WaitForDeleteCall ==
    /\ \E t \in Timeouts : Begin("wait_for_delete", t, "wfd_loop")
    /\ lookup' = None
    /\ ret' = None
    /\ raised' = None
    /\ UNCHANGED readVars
    /\ UNCHANGED <<calls, store, has_refresh, zone, zone_id, subnet_id,
                   security_groups, launch_config, default_vpc, resolved, bdm, events,
                   instance>>
    /\ UNCHANGED azureVars

\* Lines 173-177: one turn of the loop (sleep, get, test).
WaitForDeletePoll ==
    /\ pc = "wfd_loop"
    /\ loop_continues(timeout)
    /\ \E error \in BOOLEAN :
          LET obj == get(store, error) IN
          /\ polls' = Append(polls, obj)
          /\ IF wait_for_delete_gone(obj)
             THEN /\ wret' = "True"
                  /\ ret' = "True"
                  /\ pc' = "returned"
                  /\ UNCHANGED timeout
             ELSE /\ timeout' = timeout - 1
                  /\ UNCHANGED <<wret, ret, pc>>
    /\ UNCHANGED <<calls, launchVars, store, has_refresh, op, refreshes, lookup,
                   ops_done, budget, readVars>>
    /\ UNCHANGED azureVars

\* Line 178: the budget is used up.
WaitForDeleteTimeout ==
    /\ pc = "wfd_loop"
    /\ ~loop_continues(timeout)
    /\ wret' = "False"
    /\ ret' = "False"
    /\ pc' = "returned"
    /\ UNCHANGED <<calls, launchVars, store, has_refresh, op, timeout, polls,
                   refreshes, lookup, ops_done, budget, readVars>>
    /\ UNCHANGED azureVars

NextAdapter ==
    \/ Propagate
    \/ Get
    \/ List
    \/ Find
    \/ WaitForDeleteCall
    \/ WaitForDeletePoll
    \/ WaitForDeleteTimeout
    \/ Delete
    \/ WaitForCreateCall
    \/ WaitForCreatePoll
    \/ WaitForCreateTimeout
    \/ ServiceCreateCall
    \/ ServiceCreateReturn

SpecAdapter == InitAdapter /\ [][NextAdapter]_vars

(***************************************************************************)
(* The two polling loops on their own, with the delete that precedes a     *)
(* wait_for_delete.  Each turn of a loop is a sleep and one get, both of   *)
(* which return, so a loop that can take a turn or leave does so.          *)
(***************************************************************************)
NextPoll ==
    \/ Propagate
    \/ Delete
    \/ WaitForCreateCall
    \/ WaitForCreatePoll
    \/ WaitForCreateTimeout
    \/ WaitForDeleteCall
    \/ WaitForDeletePoll
    \/ WaitForDeleteTimeout

SpecPoll ==
    /\ InitAdapter
    /\ [][NextPoll]_vars
    /\ WF_vars(WaitForCreatePoll)
    /\ WF_vars(WaitForCreateTimeout)
    /\ WF_vars(WaitForDeletePoll)
    /\ WF_vars(WaitForDeleteTimeout)

(***************************************************************************)
(* The services built on the adapter.  Key pairs and subnets hand their    *)
(* calls straight to the adapter; security groups, volumes and snapshots   *)
(* create through ServiceCreateCall above and delete through               *)
(* ServiceDeleteCall below.                                                *)
(***************************************************************************)
DirectKinds == {"key_pair", "subnet"}

\* AWSKeyPairService.create (229-231) and AWSSubnetService.create (871-878):
\* "return self.iface.create(...)" / "res = self.iface.create(...); return res".
DirectCreate ==
    /\ store = "absent"
    /\ \E kind \in DirectKinds, outcome \in {"ok", "error"} :
          /\ Begin("create_" \o kind, 0, "returned")
          /\ calls' = Append(calls, "create_" \o kind)
          /\ store' = IF outcome = "ok" THEN "creating" ELSE store
          /\ raised' = IF outcome = "ok" THEN None ELSE "EC2ResponseError"
          /\ ret' = IF outcome = "ok" THEN Resource ELSE None
    /\ lookup' = None
    /\ UNCHANGED readVars
    /\ UNCHANGED <<has_refresh, zone, zone_id, subnet_id, security_groups, launch_config,
                   default_vpc, resolved, bdm, events, instance>>
    /\ UNCHANGED azureVars

\* AWSKeyPairService.delete (233-235) and AWSSubnetService.delete (880-882):
\* "return self.iface.delete(...)".
DirectDelete ==
    /\ \E kind \in DirectKinds, error \in BOOLEAN, outcome \in {"ok", "error"} :
          LET res == get(store, error) IN
          /\ Begin("delete_" \o kind, 0, "returned")
          /\ lookup' = res
          /\ ret' = delete_return(res, IF res # None THEN outcome ELSE "skipped")
          /\ calls' = IF res # None THEN Append(calls, "delete") ELSE calls
          /\ store' = IF res # None /\ outcome = "ok" THEN "deleting" ELSE store
          /\ deleted' = IF res # None THEN outcome ELSE "skipped"
          /\ failed' = error
    /\ raised' = None
    /\ page' = << >>
    /\ UNCHANGED <<has_refresh, zone, zone_id, subnet_id, security_groups,
                   launch_config, default_vpc, resolved, bdm, events, instance>>
    /\ UNCHANGED azureVars

\* AWSSecurityGroupService.delete (266-272), AWSVolumeService.delete
\* (334-341), AWSSnapshotService.delete (374-381): look the target up (get
\* or find, both empty on a provider error); if found, iface.delete (its
\* result is dropped) and then wait_for_delete; if not, return None.
ServiceDeleteCall ==
    /\ \E kind \in ServiceKinds, error \in BOOLEAN, inner \in BOOLEAN,
          outcome \in {"ok", "error"} :
          LET found == get(store, error)
              res == get(store, inner)
          IN /\ Begin("delete_" \o kind, IF found # None THEN DefaultTimeout ELSE 0,
                      IF found # None THEN "wfd_loop" ELSE "returned")
             /\ lookup' = found
             /\ failed' = error
             /\ IF found # None /\ res # None
                THEN /\ calls' = Append(calls, "delete")
                     /\ store' = IF outcome = "ok" THEN "deleting" ELSE store
                     /\ deleted' = outcome
                ELSE /\ UNCHANGED <<calls, store>>
                     /\ deleted' = "skipped"
    /\ ret' = None
    /\ raised' = None
    /\ page' = << >>
    /\ UNCHANGED <<has_refresh, zone, zone_id, subnet_id, security_groups,
                   launch_config, default_vpc, resolved, bdm, events, instance>>
    /\ UNCHANGED azureVars

NextService ==
    \/ Propagate
    \/ DirectCreate
    \/ DirectDelete
    \/ ServiceCreateCall
    \/ WaitForCreatePoll
    \/ WaitForCreateTimeout
    \/ ServiceCreateReturn
    \/ ServiceDeleteCall
    \/ WaitForDeletePoll
    \/ WaitForDeleteTimeout

SpecService == InitAdapter /\ [][NextService]_vars

(***************************************************************************)
(* AzureCloudProvider.azure_client and _initialize.  An exception is a     *)
(* record [type, error]; error is the code of a CloudError                 *)
(* (cloud_error.error.error).  get_resource_group and create_resource_group *)
(* answer "ok", raise a CloudError with a code, or raise something that is *)
(* no CloudError (a failed connection).                                    *)
(***************************************************************************)
NoExc == [type |-> "None", error |-> ""]

CloudError(code) == [type |-> "CloudError", error |-> code]

ProviderConnectionException == [type |-> "ProviderConnectionException", error |-> ""]

ClientException == [type |-> "ClientException", error |-> ""]

GetOutcomes(exists) ==
    (IF exists THEN {"ok"} ELSE {"ResourceGroupNotFound"})
    \cup {"TooManyRequests", "AuthorizationFailed", "ClientException"}

CreateOutcomes ==
    {"ok", "AuthorizationFailed", "Conflict", "TooManyRequests", "ClientException"}

\* Line 109: stop_after_attempt(2).
MaxAttempts == 2

\* Mutant of stop_after_attempt: one attempt more is allowed.
stop_after_attempt_late(n) == n > MaxAttempts

stop_after_attempt(n) == n >= MaxAttempts

\* Line 110: retry_if_exception_type(CloudError).
retry_if_exception_type(exc) == exc.type = "CloudError"

\* Lines 118-147, one run of the body of _initialize: the exception it ends
\* with and whether it created the resource group.
initialize(g, c) ==
    CASE g = "ok" -> [exc |-> NoExc, created |-> FALSE]
      [] g = "ClientException" -> [exc |-> ClientException, created |-> FALSE]
      [] g = "ResourceGroupNotFound" ->
           (CASE c = "ok" -> [exc |-> NoExc, created |-> TRUE]
              [] c = "ClientException" -> [exc |-> ClientException, created |-> FALSE]
              [] c = "AuthorizationFailed" ->
                   [exc |-> ProviderConnectionException, created |-> FALSE]
              [] OTHER -> [exc |-> CloudError(c), created |-> FALSE])
      [] OTHER -> [exc |-> CloudError(g), created |-> FALSE]

Access(client, exc, ran) == [client |-> client, exc |-> exc, initialize |-> ran]

InitAzure ==
    /\ pc = "az_idle"
    /\ calls = << >>
    /\ zone = None
    /\ zone_id = None
    /\ subnet_id = None
    /\ security_groups = NoGroups
    /\ default_vpc = None
    /\ launch_config = NoLaunchConfig
    /\ resolved = NoResult
    /\ bdm = NoBdm
    /\ events = << >>
    /\ raised = None
    /\ instance = None
    /\ AdapterIdle
    /\ azure_client = None
    /\ resource_group \in BOOLEAN
    /\ attempts = 0
    /\ tries = << >>
    /\ initialized = FALSE
    /\ accesses = << >>

\* Lines 86-106: no client is cached; one is built and stored, and
\* _initialize is entered.
AccessInit ==
    /\ pc = "az_idle"
    /\ Len(accesses) < MaxAccesses
    /\ azure_client = None
    /\ azure_client' = "client"
    /\ attempts' = 0
    /\ tries' = << >>
    /\ pc' = "az_initialize"
    /\ UNCHANGED <<calls, launchVars, adapterVars, resource_group, initialized, accesses>>

\* Lines 86 and 107: a client is cached and is returned.
AccessCached ==
    /\ pc = "az_idle"
    /\ Len(accesses) < MaxAccesses
    /\ azure_client # None
    /\ accesses' = Append(accesses, Access(azure_client, NoExc, FALSE))
    /\ UNCHANGED <<pc, calls, launchVars, adapterVars, azure_client, resource_group,
                   attempts, tries, initialized>>

\* Lines 109-147: one attempt of _initialize under the retry decorator, and
\* what the decorator does with its end: return, retry, or raise to the
\* property's caller (line 106 is not guarded).
InitializeAttempt ==
    /\ pc = "az_initialize"
    /\ \E g \in GetOutcomes(resource_group), c \in CreateOutcomes :
          LET r == initialize(g, c)
              n == attempts + 1
          IN /\ attempts' = n
             /\ tries' = Append(tries,
                    [get |-> g,
                     create |-> IF g = "ResourceGroupNotFound" THEN c ELSE "skipped",
                     exc |-> r.exc])
             /\ resource_group' = (resource_group \/ r.created)
             /\ IF r.exc = NoExc
                THEN /\ initialized' = TRUE
                     /\ accesses' = Append(accesses, Access(azure_client, NoExc, TRUE))
                     /\ pc' = "az_idle"
                ELSE IF retry_if_exception_type(r.exc) /\ ~stop_after_attempt(n)
                     THEN UNCHANGED <<initialized, accesses, pc>>
                     ELSE /\ accesses' = Append(accesses, Access(None, r.exc, TRUE))
                          /\ pc' = "az_idle"
                          /\ UNCHANGED initialized
    /\ UNCHANGED <<calls, launchVars, adapterVars, azure_client>>

NextAzure == AccessInit \/ AccessCached \/ InitializeAttempt

SpecAzure == InitAzure /\ [][NextAzure]_vars

(***************************************************************************)
(* Error classes of the launch: Conflict is the ValueError of a zone       *)
(* mismatch or of ambiguous groups and the AttributeError of network-less  *)
(* groups; Configuration is the missing default VPC and the missing zone   *)
(* of a blank volume.                                                      *)
(***************************************************************************)
IsConflict(r) ==
    \/ r.exc = "ValueError"
    \/ r.exc = "AttributeError" /\ r.msg = "sg_without_vpc"

IsConfiguration(r) ==
    \/ r.exc = "AttributeError" /\ r.msg = "no_default_vpc"
    \/ r.exc = "InvalidConfigurationException"

\* C1 (as claimed): with a subnet and no zone supplied, the resolver returns
\* the subnet's own availability zone, never an unset zone.
C1_SubnetZoneAdopted ==
    (pc = "resolved" /\ subnet_id # None /\ zone = None) =>
        /\ resolved.exc = None
        /\ resolved.zone_id = availability_zone(subnet_id)

\* C2 (as claimed): a launch that ends with a Conflict or Configuration
\* error has issued no mutating provider call.
C2_ValidateThenAct ==
    (pc = "raised" /\ (IsConflict(resolved) \/ IsConfiguration(resolved)
                       \/ IsConfiguration(bdm))) =>
        calls = << >>

\* C3 (as claimed): in a launch, topology resolution ends before the
\* block-device mapping is begun, and the mapping is finished before
\* run_instances is issued.
C3_StageOrder ==
    \A i \in 1..Len(events) :
        /\ events[i] = "bdm_begin" =>
              \E j \in 1..(i - 1) : events[j] = "resolve_end"
        /\ events[i] = "run_instances" =>
              /\ \E j \in 1..(i - 1) : events[j] = "resolve_end"
              /\ \A j \in (i + 1)..Len(events) :
                    events[j] \notin {"bdm_begin", "bdm_end"}

\* C4: a delete whose lookup yields no resource returns True without a
\* provider delete call; so does a delete of a resource that is gone.
C4_DeleteAbsentIdempotent ==
    [][(pc' = "returned" /\ op' = "delete" /\ ops_done' # ops_done
        /\ (lookup' = None \/ store = "absent")) =>
           (ret' = "True" /\ calls' = calls /\ store' = store)]_vars

\* C4 witness: a second delete, after a first one removed the resource,
\* found nothing and returned True without another provider call.
C4_Witness ==
    /\ pc = "returned" /\ op = "delete" /\ lookup = None /\ ret = "True"
    /\ store = "absent" /\ calls = <<"delete">> /\ ops_done >= 2

WaitForCreateReturned ==
    \/ pc = "returned" /\ op = "wait_for_create"
    \/ pc = "svc_waited"

\* C5: wait_for_create returns True after exactly one refresh when a poll
\* saw the resource and the handle has refresh, None (and no refresh) when
\* a poll saw it and the handle has none, and False only when no poll saw it.
C5_WaitForCreateTriState ==
    WaitForCreateReturned =>
        /\ (\E i \in 1..Len(polls) : polls[i] # None) =>
              IF has_refresh THEN wret = "True" /\ refreshes = 1
                             ELSE wret = "None" /\ refreshes = 0
        /\ wret = "False" => \A i \in 1..Len(polls) : polls[i] = None
        /\ wret \in {"True", "False", "None"}

\* C5 witness: a kind without refresh became visible only at a later poll
\* and the wait answered None.
C5_Witness ==
    /\ WaitForCreateReturned /\ ~has_refresh /\ wret = "None"
    /\ Len(polls) >= 3 /\ polls[1] = None /\ polls[Len(polls)] = Resource

\* C6 (as claimed): the security-group, volume and snapshot create return
\* the handle when wait_for_create answered None, and return no handle only
\* when it answered False.
C6_UnsupportedIsNotFailure ==
    (pc = "returned" /\ op \in ServiceKinds /\ raised = None) =>
        /\ wret = "None" => ret = Resource
        /\ ret = None => wret = "False"

\* C7 (as claimed): with a zone, when the builder returns, as many volumes
\* were created as there are blank volume specs, and every created volume's
\* id is the volume_id of an entry of the returned mapping.
C7_BlankVolumesLinked ==
    (pc = "bdm_done" /\ bdm.exc = None /\ zone # None) =>
        /\ Len(bdm.created) = NumBlank(launch_config.block_devices)
        /\ Len(calls) = NumBlank(launch_config.block_devices)
        /\ \A k \in 1..Len(bdm.created) :
              \E slot \in DOMAIN bdm.map : bdm.map[slot].volume_id = bdm.created[k]

\* C8: a launch with a blank volume spec and no zone ends with
\* InvalidConfigurationException and has issued neither create_volume nor
\* run_instances, wherever the blank spec stands in the list.
C8_BlankVolumeNeedsZone ==
    (pc # "create" /\ launch_config.present /\ zone = None
     /\ NumBlank(launch_config.block_devices) > 0) =>
        /\ pc = "raised"
        /\ raised = "InvalidConfigurationException"
        /\ calls = << >>
        /\ instance = None

\* C8 witness: the blank spec is the second of the list, after a volume spec
\* that was mapped, and the launch has ended with the Configuration error.
C8_Witness ==
    /\ pc = "raised" /\ zone = None /\ raised = "InvalidConfigurationException"
    /\ Len(launch_config.block_devices) = 2
    /\ ~IsBlank(launch_config.block_devices[1])
    /\ launch_config.block_devices[1].is_volume
    /\ IsBlank(launch_config.block_devices[2])
    /\ calls = << >>

\* C9: a supplied subnet and a supplied zone other than the subnet's zone
\* make the resolver raise the zone-mismatch ValueError and return nothing,
\* whatever the security groups.
C9_ZoneSubnetConflict ==
    (pc = "resolved" /\ subnet_id # None /\ zone # None
     /\ availability_zone(subnet_id) # zone) =>
        /\ resolved.exc = "ValueError" /\ resolved.msg = "zone_mismatch"
        /\ resolved.subnet_id = None /\ resolved.sg_ids = << >>

\* C9 witness: subnet sn2 (zone z2) with zone z1 and security groups given.
C9_Witness ==
    /\ pc = "resolved" /\ subnet_id = "sn2" /\ zone = "z1"
    /\ security_groups.items # << >>
    /\ resolved.exc = "ValueError"

\* The networks of the groups a security-group argument names.
GroupNetworks(sgs) ==
    {sg_vpc_id(g) : g \in Range(process_security_groups(sgs, None))} \ {None}

\* C10 (as claimed): with no subnet, groups of more than one network make
\* the resolver fail with a Conflict error.
C10_AmbiguousPlacement ==
    (pc = "resolved" /\ subnet_id = None
     /\ Cardinality(GroupNetworks(security_groups)) > 1) =>
        IsConflict(resolved)

\* The ids a security-group argument resolves to when no subnet was given.
GroupIds(sgs) == process_security_groups(sgs, None)

\* C11 (as claimed): with no subnet, a resolved group attached to no network
\* makes the resolver fail with a Conflict error, also next to groups that
\* do belong to a network.
C11_NetworklessGroupConflict ==
    (pc = "resolved" /\ subnet_id = None
     /\ \E g \in Range(GroupIds(security_groups)) : sg_vpc_id(g) = None) =>
        IsConflict(resolved)

\* C11 (amended): with no subnet and groups supplied, if none of the
\* resolved groups is attached to a network, the resolver fails with the
\* "must be associated with a VPC" error.
C11_AllNetworklessConflict ==
    (pc = "resolved" /\ subnet_id = None /\ security_groups.items # << >>
     /\ \A g \in Range(GroupIds(security_groups)) : sg_vpc_id(g) = None) =>
        /\ resolved.exc = "AttributeError" /\ resolved.msg = "sg_without_vpc"
        /\ resolved.subnet_id = None

\* C11 witness: only the EC2-Classic group sg3 was supplied.
C11_Witness ==
    /\ pc = "resolved" /\ subnet_id = None
    /\ security_groups = [by_name |-> FALSE, items |-> <<"sg3">>]
    /\ resolved.msg = "sg_without_vpc"

\* C12 (as claimed): with no subnet, a list of distinct groups that all
\* belong to one network N with a subnet does not fail with Conflict, and
\* what it returns is a subnet of N, that subnet's zone and all the groups.
C12_SingleNetworkResolves ==
    LET ids == GroupIds(security_groups)
        nets == {sg_vpc_id(g) : g \in Range(ids)}
    IN (pc = "resolved" /\ subnet_id = None /\ ids # << >>
        /\ Cardinality(Range(ids)) = Len(ids)
        /\ Cardinality(nets) = 1 /\ None \notin nets
        /\ \A n \in nets : vpc_subnets(n) # << >>) =>
           /\ ~IsConflict(resolved)
           /\ resolved.exc = None =>
                 /\ \A n \in nets : resolved.subnet_id \in Range(vpc_subnets(n))
                 /\ resolved.zone_id = availability_zone(resolved.subnet_id)
                 /\ resolved.sg_ids = ids

\* C13: with neither subnet nor groups and no zone, a default network with
\* first subnet S in zone Z resolves to exactly (S, Z, []); without a
\* default network the resolver fails with the "No default VPC" error.
C13_DefaultNetworkFallback ==
    (pc = "resolved" /\ subnet_id = None /\ security_groups.items = << >>) =>
        /\ (default_vpc # None /\ zone = None /\ vpc_subnets(default_vpc) # << >>) =>
              resolved = Return3(vpc_subnets(default_vpc)[1],
                                 availability_zone(vpc_subnets(default_vpc)[1]), << >>)
        /\ default_vpc = None =>
              /\ IsConfiguration(resolved)
              /\ resolved.subnet_id = None /\ resolved.zone_id = None

\* C13 witness: the default network vpc1 gave (sn1, z1, []).
C13_Witness ==
    /\ pc = "resolved" /\ subnet_id = None /\ security_groups.items = << >>
    /\ zone = None /\ default_vpc = "vpc1"
    /\ resolved = Return3("sn1", "z1", << >>)

\* C14: the resolver raises or returns a triple whose subnet is set and,
\* when a zone is returned, lies in that zone.
C14_NoPartialResolution ==
    (pc = "resolved" /\ resolved.exc = None) =>
        /\ resolved.subnet_id \in Subnets
        /\ resolved.zone_id # None =>
              availability_zone(resolved.subnet_id) = resolved.zone_id

\* C14 witness: a network found through a group, with a requested zone in
\* which it has a subnet.
C14_Witness ==
    /\ pc = "resolved" /\ subnet_id = None /\ zone = "z2"
    /\ security_groups.items = <<"sg4">>
    /\ resolved.exc = None /\ resolved.subnet_id = "sn2"

\* The slots 'sdg', 'sdh', ... in the order the claim counts them.
SlotNames == <<"sdg", "sdh", "sdi", "sdj", "sdk", "sdl", "sdm", "sdn">>

NonRootUpTo(devs, i) ==
    Cardinality({j \in 1..i : devs[j].is_volume /\ ~devs[j].is_root})

ClaimedSlot(devs, i) ==
    IF devs[i].is_root THEN "/dev/sda1" ELSE SlotNames[NonRootUpTo(devs, i)]

C16_EphemeralDevices ==
    (pc = "bdm_done" /\ bdm.exc = None) =>
        \A n \in 1..Len(bdm.ephemeral_names) :
            /\ bdm.ephemeral_names[n] = "ephemeral" \o ToString(n - 1)
            /\ \E slot \in DOMAIN bdm.map :
                  bdm.map[slot].ephemeral_name = bdm.ephemeral_names[n]

\* C17: a delete whose lookup found the resource calls the provider's delete
\* exactly once and returns False exactly when that call reported an error,
\* True otherwise, in the same step (no wait for the removal).
C17_DeletePresent ==
    [][(op' = "delete" /\ ops_done' # ops_done /\ lookup' # None) =>
          /\ calls' = Append(calls, "delete")
          /\ deleted' \in {"ok", "error"}
          /\ ret' = "False" <=> deleted' = "error"
          /\ ret' = "True" <=> deleted' = "ok"
          /\ pc' = "returned"]_vars

\* C17 witness: delete returned True while the resource is still returned
\* by reads (the removal has not propagated).
C17_Witness ==
    /\ pc = "returned" /\ op = "delete" /\ lookup = Resource
    /\ deleted = "ok" /\ ret = "True" /\ store = "deleting"

ReadOps == {"get", "list", "find"}

\* C18: get, list and find never raise and never change the provider's
\* resources; when the provider's request failed, get returns None and
\* list/find hand an empty page.
C18_ReadsSoftFail ==
    [][(op' \in ReadOps /\ ops_done' # ops_done) =>
          /\ raised' = None
          /\ store' = store
          /\ calls' = calls
          /\ failed' => (ret' = None /\ page' = << >>)]_vars

\* C18 witness: list failed at the provider while the resource exists, and
\* the caller got an empty page and no exception.
C18_Witness ==
    /\ pc = "returned" /\ op = "list" /\ failed /\ store = "present"
    /\ page = << >> /\ raised = None

\* C19: wait_for_delete returns True at the first poll whose get returns
\* nothing, returns False exactly when get returned the resource at every
\* poll of the budget, and never raises.
C19_WaitForDeleteOutcome ==
    (pc = "returned" /\ op = "wait_for_delete") =>
        /\ wret \in {"True", "False"}
        /\ ret = wret
        /\ raised = None
        /\ wret = "True" <=> (polls # << >> /\ polls[Len(polls)] = None)
        /\ \A i \in 1..(Len(polls) - 1) : polls[i] # None
        /\ wret = "False" <=>
              (Len(polls) = budget /\ \A i \in 1..Len(polls) : polls[i] # None)

\* C19 witness: the resource lingered for two polls, then was gone.
C19_Witness ==
    /\ pc = "returned" /\ op = "wait_for_delete" /\ wret = "True"
    /\ polls = <<Resource, Resource, None>>

\* The outcome of the launch's run_instances call, "None" before the call.
RunOutcome ==
    IF \E i \in 1..Len(events) : events[i] = "run_instances"
    THEN events[Len(events)] ELSE None

\* C20: one launch calls run_instances at most once; when the call raised,
\* create ends with that same error, run_instances is the last provider
\* call and no handle was named; when it handed a reservation, create
\* returns a handle that carries the caller's name.
C20_SingleUnretriedCreate ==
    /\ Cardinality({i \in 1..Len(calls) : calls[i] = "run_instances"}) <= 1
    /\ RunOutcome = "error" =>
          /\ pc = "raised"
          /\ raised = "EC2ResponseError"
          /\ calls[Len(calls)] = "run_instances"
          /\ instance = None
    /\ RunOutcome = "reservation" =>
          /\ pc = "done"
          /\ raised = None
          /\ instance = InstanceName

\* C20 witness: run_instances raised after the launch options resolved, and
\* create ended with the provider's error.
C20_Witness ==
    /\ RunOutcome = "error" /\ pc = "raised" /\ raised = "EC2ResponseError"
    /\ resolved.exc = None /\ instance = None

CreateOps == ServiceKinds \cup {"create_" \o k : k \in DirectKinds}

DeleteOps == {"delete_" \o k : k \in ServiceKinds \cup DirectKinds}

\* The wait primitive of the running operation was invoked and polled.
WaitInvoked == budget = DefaultTimeout /\ polls # << >>

\* C21: a service create hands a handle to its caller only after
\* wait_for_create was invoked, and a service delete returns only after
\* wait_for_delete was invoked.
C21_PathsThroughWaits ==
    /\ (pc = "returned" /\ op \in CreateOps /\ ret = Resource) => WaitInvoked
    /\ (pc = "returned" /\ op \in DeleteOps /\ raised = None) => WaitInvoked

\* The first subnet of sns, in provider order, that lies in zone z.
FirstMatch(sns, z) ==
    LET hits == {i \in 1..Len(sns) : availability_zone(sns[i]) = z}
    IN IF hits = {} THEN None
       ELSE sns[CHOOSE i \in hits : \A j \in hits : i <= j]

\* C22: inside the default network, a given zone selects the first subnet
\* of that zone in provider order, and no zone selects the network's first
\* subnet with that subnet's zone as the effective zone.
C22_FirstSubnetOfZone ==
    (pc = "resolved" /\ subnet_id = None /\ security_groups.items = << >>
        /\ default_vpc # None) =>
        LET sns == vpc_subnets(default_vpc) IN
        /\ (zone # None /\ FirstMatch(sns, zone) # None) =>
              resolved = Return3(FirstMatch(sns, zone), zone, << >>)
        /\ (zone = None /\ sns # << >>) =>
              resolved = Return3(sns[1], availability_zone(sns[1]), << >>)

WaitOps == {"wait_for_create", "wait_for_delete"}

\* C23: the time wait_for_create or wait_for_delete has slept, two seconds
\* before each poll, never exceeds the timeout argument.
C23_PollingTimeBudget ==
    op \in WaitOps => PollSleep * Len(polls) <= budget

\* C24: the zone handed to the block-device builder is the zone topology
\* resolution produced for the same launch, and a launch with a blank volume,
\* no zone, and a subnet or a default network does not fail for the missing
\* zone.
C24_MappingUsesResolvedZone ==
    /\ (launch_config.present /\ pc \in {"run", "done"}) =>
          zone = resolved.zone_id
    /\ (launch_config.present /\ zone = None
        /\ NumBlank(launch_config.block_devices) > 0
        /\ (get_net_id(launch_config) # None \/ default_vpc = "vpc1")) =>
          ~(pc = "raised" /\ IsConfiguration(bdm))

RemoveAt(seq, i) == SubSeq(seq, 1, i - 1) \o SubSeq(seq, i + 1, Len(seq))

AllOk == [at |-> 0, how |-> "ok"]

IsImageSourced(d) == d.is_volume /\ d.source = "MachineImage"

\* Position of spec j of the list once spec i is taken out.
Without(i, j) == IF j < i THEN j ELSE j - 1

\* No later spec of the list was put on the slot of spec j.
KeepsSlot(j) ==
    \A k \in (j + 1)..Len(bdm.slots) : bdm.slots[k] # bdm.slots[j]

\* b is the slot one letter after a.
NextSlot(a, b) ==
    \E k \in 1..(Len(Letters) - 1) :
        a = "sd" \o Letters[k] /\ b = "sd" \o Letters[k + 1]

\* An image-sourced spec raises nothing and creates nothing: every call is
\* a blank spec's create_volume and every error comes with a blank spec.
ImageSpecInert ==
    /\ Len(bdm.calls) <= NumBlank(launch_config.block_devices)
    /\ \A c \in Range(bdm.calls) : c = "create_volume"
    /\ bdm.exc # None => NumBlank(launch_config.block_devices) > 0

NumNonRoot(devs) ==
    Cardinality({j \in 1..Len(devs) : devs[j].is_volume /\ ~devs[j].is_root})

InLoop == pc \in {"wfc_loop", "wfd_loop"}

\* C26: wait_for_create and wait_for_delete never call get more often than
\* the timeout argument, and every started wait returns a value (True,
\* False or None) without raising, whatever the provider does.
C26_PollingTerminates ==
    /\ [](op \in WaitOps => Len(polls) <= budget)
    /\ InLoop ~> (pc = "returned" /\ wret \in {"True", "False", "None"}
                  /\ ret = wret /\ raised = None)

\* C26 witness: every one of the default 15 lookups came back empty and
\* wait_for_create answered False.
C26_Witness ==
    /\ pc = "returned" /\ op = "wait_for_create" /\ wret = "False"
    /\ budget = DefaultTimeout /\ Len(polls) = budget
    /\ \A i \in 1..Len(polls) : polls[i] = None

\* C27: whenever a poll makes wait_for_delete return True, the provider no
\* longer shows the resource at that poll; a failed lookup of a resource
\* that is still there never yields True.
C27_ConfirmedDeletionIsGone ==
    [][(pc = "wfd_loop" /\ pc' = "returned" /\ wret' = "True") =>
          ~Visible(store)]_vars

RootSlot == "/dev/sda1"

LetterSlots == {"sdg", "sdh", "sdi", "sdj", "sdk", "sdl", "sdm", "sdn", "sdo", "sdp",
                "sdq", "sdr", "sds", "sdt", "sdu", "sdv", "sdw", "sdx", "sdy", "sdz"}

VolumeSpecs(devs) == {j \in 1..Len(devs) : devs[j].is_volume}

C29_ClientOnlyAfterInit ==
    \A i \in 1..Len(accesses) :
        /\ accesses[i].client # None => initialized
        /\ (i > 1 /\ accesses[i - 1].exc # NoExc) => accesses[i].initialize

\* The access that ended the _initialize call whose attempts are in tries.
InitializeEnded == pc = "az_idle" /\ tries # << >>

InitializeRaised ==
    LET k == CHOOSE i \in 1..Len(accesses) : accesses[i].initialize
    IN accesses[k].exc

\* C30: one call of _initialize makes at most 2 attempts, a second one only
\* after a first that ended with a CloudError; create_resource_group is
\* called only after get_resource_group answered ResourceGroupNotFound in
\* the same attempt; AuthorizationFailed from create_resource_group ends the
\* call at once with ProviderConnectionException; when the second attempt
\* ends with a CloudError, that last CloudError reaches the caller.
C30_BoundedInitializeRetry ==
    /\ Len(tries) <= MaxAttempts
    /\ attempts = Len(tries)
    /\ \A i \in 1..Len(tries) :
          /\ i > 1 => tries[i - 1].exc.type = "CloudError"
          /\ tries[i].create # "skipped" => tries[i].get = "ResourceGroupNotFound"
          /\ tries[i].create = "AuthorizationFailed" =>
                /\ i = Len(tries)
                /\ pc = "az_idle"
                /\ InitializeRaised = ProviderConnectionException
    /\ (InitializeEnded /\ Len(tries) = MaxAttempts
        /\ tries[Len(tries)].exc.type = "CloudError") =>
          InitializeRaised = tries[Len(tries)].exc

\* C30 witness: the first attempt was throttled at get_resource_group, the
\* second found no group and failed to create it with Conflict, and the
\* caller got the Conflict error.
C30_Witness ==
    /\ InitializeEnded /\ Len(tries) = MaxAttempts
    /\ tries[1].exc = CloudError("TooManyRequests")
    /\ tries[MaxAttempts].get = "ResourceGroupNotFound"
    /\ tries[MaxAttempts].create = "Conflict"
    /\ InitializeRaised = CloudError("Conflict")

====
